---- MODULE Spec2Model ----
(***************************************************************************)
(* Request / cache / retry pipeline of src/services/geminiService.ts:      *)
(* retryRequest, getCachedData and the four fetchers generateChapterNotes, *)
(* generatePremiumQuestions, generateAestheticImage and generateSpeech,    *)
(* over localStorage, the in-memory audioCache and the remote provider.    *)
(*                                                                         *)
(* Spec        one component calls the fetchers, one call after the other  *)
(* SpecOverlap two components call them, their calls overlap               *)
(* SpecCorrupt the notes and question-set keys hold entries that are not   *)
(*             JSON when the session starts                                *)
(* SpecDecode  decodeAudioData applied to a byte stream                    *)
(***************************************************************************)
EXTENDS Integers, Sequences, FiniteSets, TLC

(***************************************************************************)
(* Bounds of the model                                                     *)
(***************************************************************************)
\* parts of a chapter a caller can ask for: 1..MaxPart
MaxPart == 2
\* distinct payloads the provider may generate for one request: 1..MaxVariant
MaxVariant == 2
\* fetcher calls started in one run of the model
MaxCalls == 2
\* samples of a byte stream given to decodeAudioData
MaxSamples == 4
\* channels of a decoded buffer
MaxChannels == 2

(***************************************************************************)
(* Program constants                                                       *)
(***************************************************************************)
DefaultRetries == 5
DefaultDelay == 1000
BackoffMultiplier == 2
ImgKeyLen == 48
HashTextLen == 100
SpeechSendLen == 2500
MaxCharCode == 255
\* values of a byte, values of a 16-bit sample, divisor of a sample
ByteBase == 256
Int16Span == 65536
SampleScale == 32768

Callers == {"c1", "c2"}
Subjects == {"physics"}
Titles == {"Optics"}
Parts == 1..MaxPart
Variants == 1..MaxVariant

\* HTTP statuses the provider can fail with; NoStatus is an error object
\* without a status property (network failure, SyntaxError, TypeError, ...)
NoStatus == 0
Statuses == {429, 500, 503, 400, NoStatus}

(***************************************************************************)
(* Strings are sequences of character codes.  Prompts and texts are the    *)
(* inputs of the image and the speech fetcher.                             *)
(***************************************************************************)
Prompts == { <<65>>, <<66>>, <<952>> }
Texts == { <<65>>, <<952>> }

\* the characters of a prompt that its cache key depends on: ImgKeyLen
\* base64 characters encode this many characters of the prompt
ImgKeyedLen == (ImgKeyLen \div 4) * 3

\* two prompts that differ after the characters the key depends on
LongPrompts ==
  { [i \in 1..ImgKeyedLen |-> 65] \o << c >> : c \in {67, 68} }

\* two texts of equal length that differ after the characters the hash
\* depends on
LongTexts ==
  { [i \in 1..HashTextLen |-> 65] \o << c >> : c \in {67, 68} }

RECURSIVE ToStr(_)
\* decimal digits of a natural number, as character codes (String(n))
ToStr(n) ==
  IF n < 10 THEN << 48 + n >> ELSE ToStr(n \div 10) \o << 48 + (n % 10) >>

\* String.prototype.slice(0, n)
Slice(s, n) ==
  IF Len(s) <= n THEN s ELSE SubSeq(s, 1, n)

\* base64 padding character
Pad == 64

RECURSIVE Base64(_)
\* the base64 alphabet indices of a byte string, 3 bytes -> 4 sextets
Base64(s) ==
  IF Len(s) = 0 THEN << >>
  ELSE IF Len(s) = 1 THEN
    << s[1] \div 4, (s[1] % 4) * 16, Pad, Pad >>
  ELSE IF Len(s) = 2 THEN
    << s[1] \div 4, (s[1] % 4) * 16 + (s[2] \div 16), (s[2] % 16) * 4, Pad >>
  ELSE
    << s[1] \div 4, (s[1] % 4) * 16 + (s[2] \div 16),
       (s[2] % 16) * 4 + (s[3] \div 64), s[3] % 64 >>
    \o Base64(SubSeq(s, 4, Len(s)))

\* btoa throws InvalidCharacterError on a character outside Latin-1
BtoaThrows(s) ==
  \E i \in 1..Len(s) : s[i] > MaxCharCode

btoa(s) ==
  Base64(s)

(***************************************************************************)
(* Cache keys.  One record shape for every key of localStorage.            *)
(***************************************************************************)
NoPart == 0

NoteKey(subjectId, chapterTitle, part) ==
  [prefix |-> "note_v11", subject |-> subjectId, title |-> chapterTitle,
   part |-> part, digest |-> << >>]

PremiumKey(subjectId) ==
  [prefix |-> "premium_vault_v16", subject |-> subjectId, title |-> "",
   part |-> NoPart, digest |-> << >>]

ImgKey(prompt) ==
  [prefix |-> "img_v6", subject |-> "", title |-> "",
   part |-> NoPart, digest |-> Slice(btoa(prompt), ImgKeyLen)]

\* text.slice(0, 100) + text.length + (isSummary ? '1' : '0')
HashInput(text, isSummary) ==
  Slice(text, HashTextLen) \o ToStr(Len(text))
    \o (IF isSummary THEN << 49 >> ELSE << 48 >>)

\* the key of the in-memory audioCache
SpeechHash(text, isSummary) ==
  btoa(HashInput(text, isSummary))

NoKey ==
  [prefix |-> "", subject |-> "", title |-> "", part |-> NoPart, digest |-> << >>]

NoteKeys == { NoteKey(s, t, p) : s \in Subjects, t \in Titles, p \in Parts }
PremiumKeys == { PremiumKey(s) : s \in Subjects }
ImgKeys ==
  { ImgKey(p) : p \in { q \in Prompts \cup LongPrompts : ~BtoaThrows(q) } }
StorageKeys == NoteKeys \cup PremiumKeys \cup ImgKeys
SpeechKey(text, isSummary) ==
  [prefix |-> "audioCache", subject |-> "", title |-> "",
   part |-> NoPart, digest |-> SpeechHash(text, isSummary)]

SpeechKeys ==
  { SpeechKey(t, m) :
      t \in { u \in Texts \cup LongTexts : ~BtoaThrows(HashInput(u, FALSE)) },
      m \in BOOLEAN }

\* the text sent to the provider: `${instruction} ${text.slice(0, 2500)}`,
\* the instruction written as its first letter (Q: quick summary, B: lecture)
SpeechSent(text, isSummary) ==
  (IF isSummary THEN << 81 >> ELSE << 66 >>) \o Slice(text, SpeechSendLen)

(***************************************************************************)
(* JavaScript values handled by the fetchers.  t is the kind of value, req *)
(* and input the request it was generated for, n the generated variant,    *)
(* part the value of the part property (NoPart: no such property).         *)
(***************************************************************************)
Null ==
  [t |-> "null", req |-> NoKey, input |-> << >>, n |-> 0, part |-> NoPart]

\* a JSON object the provider generated for request key
Obj(key, n, part) ==
  [t |-> "obj", req |-> key, input |-> << >>, n |-> n, part |-> part]

\* a JSON array the provider generated for request key
Arr(key, n) ==
  [t |-> "arr", req |-> key, input |-> << >>, n |-> n, part |-> NoPart]

\* the JSON number 0 (a falsy value that is not null)
Zero ==
  [t |-> "zero", req |-> NoKey, input |-> << >>, n |-> 0, part |-> NoPart]

\* the inline image data the provider generated for a prompt
Img(prompt, n) ==
  [t |-> "img", req |-> ImgKey(prompt), input |-> prompt, n |-> n, part |-> NoPart]

\* the audio the provider synthesized for the text sent
Audio(sent, n) ==
  [t |-> "audio", req |-> NoKey, input |-> sent, n |-> n, part |-> NoPart]

\* JavaScript truthiness of a value: if (cached)
Truthy(v) ==
  v.t \in {"obj", "arr", "img", "audio"}

(***************************************************************************)
(* Strings stored in localStorage or returned as response.text.            *)
(*   json    : the JSON text of val                                        *)
(*   bad     : a text JSON.parse rejects                                   *)
(*   empty   : the empty string                                            *)
(*   datauri : data:image/png;base64,<val>                                 *)
(*   absent  : no string (getItem returns null, response.text undefined)   *)
(***************************************************************************)
NoText == [form |-> "absent", val |-> Null]
EmptyText == [form |-> "empty", val |-> Null]
BadText == [form |-> "bad", val |-> Null]
JsonText(v) == [form |-> "json", val |-> v]
DataUri(v) == [form |-> "datauri", val |-> v]

\* truthiness of a string or null: if (data), response.text || '{}'
TruthyText(x) ==
  x.form \notin {"absent", "empty"}

JSONParseThrows(x) ==
  x.form # "json"

JSONParse(x) ==
  x.val

\* variant: the value is stored without JSON.stringify, setItem turns it
\* into the string "[object Object]"
JSONStringifyMissing(v) ==
  BadText

JSONStringify(v) ==
  JsonText(v)

\* variant: the catch block returns an empty object, catch { return {} }
getCachedDataEmptyOnError(store, key) ==
  LET data == store[key]
  IN  IF TruthyText(data)
        THEN IF JSONParseThrows(data)
               THEN [t |-> "obj", req |-> NoKey, input |-> << >>, n |-> 0,
                     part |-> NoPart]
               ELSE JSONParse(data)
        ELSE Null

getCachedData(store, key) ==
  LET data == store[key]
  IN  IF TruthyText(data)
        THEN IF JSONParseThrows(data) THEN Null ELSE JSONParse(data)
        ELSE Null

(***************************************************************************)
(* Errors: the status property, the attempt of retryRequest's operation    *)
(* that raised it, and where it came from.                                 *)
(***************************************************************************)
Err(status, attempt, src) ==
  [status |-> status, attempt |-> attempt, src |-> src]

NoErr == Err(NoStatus, 0, "none")

\* outcome of a fetcher as its caller sees it
ResNone == [kind |-> "none", val |-> Null, err |-> NoErr]
ResValue(v) == [kind |-> "value", val |-> v, err |-> NoErr]
ResNull == [kind |-> "null", val |-> Null, err |-> NoErr]
ResThrow(e) == [kind |-> "throw", val |-> Null, err |-> e]

(***************************************************************************)
(* State                                                                   *)
(***************************************************************************)
VARIABLES
  storage,     \* localStorage: StorageKeys -> stored string, NoText if none
  full,        \* the storage quota is exhausted: setItem throws
  audioCache,  \* the audioCache Map: SpeechKeys -> buffer, Null if none
  apiKey,      \* process.env.API_KEY: "valid", "empty" or "missing"
  started,     \* fetcher calls started so far
  fetch,       \* per caller, the fetcher call it is running
  decode,      \* a call of decodeAudioData: its arguments and its outcome
  mounted,     \* NoteRenderer: the component is mounted
  audioMode,   \* NoteRenderer: "idle", "loading" or "playing"
  sourceNodeRef, \* NoteRenderer: sourceNodeRef.current, NoSource if null
  speechCalls, \* NoteRenderer: its runs of handleStartAudio
  sources,     \* NoteRenderer: the AudioBufferSourceNodes it created
  chapterPart, \* ChapterView: the part parameter of the route
  note,        \* ChapterView: the note state, NoNote if null
  loading,     \* ChapterView: the loading state
  error,       \* ChapterView: the error state, NoError if null
  noteFetches, \* ChapterView: its runs of fetchNote
  vaultSubject, \* PremiumVaultView: the subjectId parameter of the route
  user,        \* App: currentUser, NoUser if null
  activeEmail, \* localStorage[ACTIVE_USER_KEY], NoUser if none
  viewState,   \* PremiumVaultView: the viewState state
  questions,   \* PremiumVaultView: the subject the questions state was
               \* fetched for, NoQuestions if []
  vaultFetches, \* PremiumVaultView: its runs of handleRevealVault
  diagramPrompt, \* DiagramImage: the prompt prop
  imgUrl,      \* DiagramImage: the prompt the image of the imgUrl state was
               \* generated for, NoUrl if null
  imgLoading,  \* DiagramImage: the loading state
  imageFetches \* DiagramImage: the runs of fetchImg of its effects

audioVars == << mounted, audioMode, sourceNodeRef, speechCalls, sources >>

chapterVars == << chapterPart, note, loading, error, noteFetches >>

vaultVars ==
  << vaultSubject, user, activeEmail, viewState, questions, vaultFetches >>

diagramVars == << diagramPrompt, imgUrl, imgLoading, imageFetches >>

uiVars == << audioVars, chapterVars, vaultVars, diagramVars >>

vars ==
  << storage, full, audioCache, apiKey, started, fetch, decode, uiVars >>

(***************************************************************************)
(* The components of NoteRenderer.tsx after construction                   *)
(***************************************************************************)

\* runs of handleStartAudio of one NoteRenderer
MaxClicks == 3

\* sourceNodeRef.current before any source was started
NoSource == 0

\* useState('idle'), useRef(null), no click yet
InitNoteRenderer ==
  /\ mounted = TRUE
  /\ audioMode = "idle"
  /\ sourceNodeRef = NoSource
  /\ speechCalls = [i \in 1..MaxClicks |-> [pc |-> "unused", isSummary |-> FALSE, stale |-> FALSE]]
  /\ sources = [i \in 1..MaxClicks |-> "none"]

\* runs of fetchNote of one ChapterView
MaxNoteFetches == 3

\* useState<ChapterNote | null>(null), useState<string | null>(null)
NoNote == 0

NoError == "null"

\* ChapterView mounted on the route of a part: useState(null),
\* useState(true), useState(null), and the effect has called fetchNote
InitChapterView ==
  /\ chapterPart \in Parts
  /\ note = NoNote
  /\ loading = TRUE
  /\ error = NoError
  /\ noteFetches = [i \in 1..MaxNoteFetches |->
                      IF i = 1 THEN [pc |-> "inflight", part |-> chapterPart]
                      ELSE [pc |-> "unused", part |-> NoPart]]

\* ChapterView is not on screen
ChapterViewOff ==
  /\ chapterPart = NoPart
  /\ note = NoNote
  /\ loading = TRUE
  /\ error = NoError
  /\ noteFetches = [i \in 1..MaxNoteFetches |-> [pc |-> "unused", part |-> NoPart]]

\* runs of handleRevealVault of one PremiumVaultView
MaxReveals == 3

\* subjects a vault route can name
VaultSubjects == {"physics", "chemistry"}

NoUser == "null"

\* the registered account and the purchasedSubjects of its ledger record
Student == "student"

LedgerPurchases == {"physics"}

NoQuestions == "[]"

NoSubject == ""

\* (user?.purchasedSubjects || []) and (storedUser?.purchasedSubjects || [])
PurchasedSubjects(account) ==
  IF account = NoUser THEN {} ELSE LedgerPurchases

\* hasAccess of the effect of PremiumVaultView
HasAccess(subjectId, currentUser, email) ==
  \/ subjectId \in PurchasedSubjects(currentUser)
  \/ subjectId \in PurchasedSubjects(email)

\* the viewState the effect sets
CheckedViewState(subjectId, currentUser, email) ==
  IF HasAccess(subjectId, currentUser, email) THEN "granted"
  ELSE "unauthorized"

\* PremiumVaultView mounted on the route of a subject by the signed-in
\* student, after its effect ran
InitPremiumVaultView ==
  /\ vaultSubject \in VaultSubjects
  /\ user = Student
  /\ activeEmail = Student
  /\ viewState = CheckedViewState(vaultSubject, user, activeEmail)
  /\ questions = NoQuestions
  /\ vaultFetches = [i \in 1..MaxReveals |-> [pc |-> "unused", subject |-> NoSubject]]

\* PremiumVaultView is not on screen, nobody is signed in
PremiumVaultViewOff ==
  /\ vaultSubject = NoSubject
  /\ user = NoUser
  /\ activeEmail = NoUser
  /\ viewState = "checking"
  /\ questions = NoQuestions
  /\ vaultFetches = [i \in 1..MaxReveals |-> [pc |-> "unused", subject |-> NoSubject]]

\* runs of the effect of one DiagramImage
MaxImageFetches == 3

NoPrompt == << >>

\* useState<string | null>(null)
NoUrl == << 0 >>

\* DiagramImage mounted with a prompt: useState(null), useState(true), and
\* the effect has called fetchImg
InitDiagramImage ==
  /\ diagramPrompt \in Prompts
  /\ imgUrl = NoUrl
  /\ imgLoading = TRUE
  /\ imageFetches =
       [i \in 1..MaxImageFetches |->
          IF i = 1
          THEN [pc |-> "inflight", prompt |-> diagramPrompt, active |-> TRUE]
          ELSE [pc |-> "unused", prompt |-> NoPrompt, active |-> FALSE]]

\* no DiagramImage is on screen
DiagramImageOff ==
  /\ diagramPrompt = NoPrompt
  /\ imgUrl = NoUrl
  /\ imgLoading = TRUE
  /\ imageFetches = [i \in 1..MaxImageFetches |-> [pc |-> "unused", prompt |-> NoPrompt, active |-> FALSE]]

InitUI ==
  /\ InitNoteRenderer
  /\ ChapterViewOff
  /\ PremiumVaultViewOff
  /\ DiagramImageOff

(***************************************************************************)
(* decodeAudioData: 16-bit PCM bytes to the channels of an AudioBuffer     *)
(***************************************************************************)
\* the 16-bit samples a byte stream is made of
SampleValues == {0, 16384, -16384, 32767, -32768, -1}

SampleSeqs ==
  UNION { [1..n -> SampleValues] : n \in 0..MaxSamples }

\* the two bytes an Int16Array view stores for the sample s, low byte first
Int16Bytes(s) ==
  LET u == IF s < 0 THEN s + Int16Span ELSE s
  IN  << u % ByteBase, u \div ByteBase >>

RECURSIVE PcmBytes(_)
\* the bytes of a sequence of samples
PcmBytes(ss) ==
  IF ss = << >> THEN << >> ELSE Int16Bytes(Head(ss)) \o PcmBytes(Tail(ss))

\* variant: the bytes are viewed as a Uint16Array
Uint16At(data, j) ==
  data[2 * j - 1] + ByteBase * data[2 * j]

\* dataInt16[j - 1]: element j of the Int16Array view of the bytes
Int16At(data, j) ==
  LET u == data[2 * j - 1] + ByteBase * data[2 * j]
  IN  IF u >= Int16Span \div 2 THEN u - Int16Span ELSE u

\* new Int16Array(data.buffer) throws a RangeError when the byte length is
\* not a multiple of 2
Int16ArrayThrows(data) ==
  Len(data) % 2 # 0

Int16Array(data) ==
  [j \in 1..(Len(data) \div 2) |-> Int16At(data, j)]

\* the length of the buffer ctx.createBuffer(numChannels, frameCount, ...)
\* creates: the quotient dataInt16.length / numChannels, truncated to an
\* unsigned long
FrameCount(length, numChannels) ==
  length \div numChannels

\* createBuffer throws a NotSupportedError for a buffer of no frames
CreateBufferThrows(frameCount) ==
  frameCount = 0

\* s / 32768.0, which a Float32Array element holds exactly
Sample(s) ==
  [num |-> s, den |-> SampleScale]

NoBuffer == [kind |-> "none", channels |-> << >>]
BufferThrow == [kind |-> "throw", channels |-> << >>]

\* the AudioBuffer decodeAudioData resolves with, channel by channel, or
\* its rejection.  The loop of a channel writes the frames 0..frameCount-1;
\* a write past the end of the channel is ignored.
decodeAudioData(data, numChannels) ==
  IF Int16ArrayThrows(data)
    THEN BufferThrow
    ELSE LET dataInt16 == Int16Array(data)
             frameCount == FrameCount(Len(dataInt16), numChannels)
         IN  IF CreateBufferThrows(frameCount)
               THEN BufferThrow
               ELSE [kind |-> "buffer",
                     channels |->
                       [channel \in 1..numChannels |->
                         [i \in 1..frameCount |->
                           Sample(dataInt16[(i - 1) * numChannels + channel])]]]

\* no call of decodeAudioData
IdleDecode ==
  [pc |-> "idle", samples |-> << >>, data |-> << >>, numChannels |-> 1,
   out |-> NoBuffer]

(***************************************************************************)
(* One call of a fetcher.                                                  *)
(*   pc       idle, awaiting (the provider's answer), waiting (for the     *)
(*            backoff timer), done; off for a caller that is not mounted   *)
(*   op, key, part, input : the fetcher, its cache key and its arguments   *)
(*   retries, delay       : the arguments of the current retryRequest call *)
(*   calls    invocations of retryRequest's fn                             *)
(*   provCalls invocations of generateContent                              *)
(*   waits    the delays of the setTimeout waits, in order                 *)
(*   failures rejections of fn                                             *)
(*   found    the string localStorage.getItem returned at the lookup       *)
(*   present, looked : the cache lookup returned a non-null value; it      *)
(*   declared the part property of the response as the provider sent it    *)
(*   raw      response.text as the provider sent it (notes, question set)  *)
(*   got, payload : a response was decoded; the decoded value              *)
(*   lastErr  the error most recently caught                               *)
(*   thrown   the error retryRequest rejected with                         *)
(*   putAttempts, putRejected : setItem calls; one of them threw           *)
(*   result   what the caller of the fetcher gets                          *)
(***************************************************************************)
IdleFetch ==
  [pc |-> "idle", op |-> "none", key |-> NoKey, part |-> NoPart,
   input |-> << >>, retries |-> 0, delay |-> 0, calls |-> 0, provCalls |-> 0,
   waits |-> << >>, failures |-> 0, found |-> NoText, present |-> FALSE,
   looked |-> Null, declared |-> NoPart, raw |-> NoText, got |-> FALSE,
   payload |-> Null,
   lastErr |-> NoErr, thrown |-> NoErr,
   putAttempts |-> 0, putRejected |-> FALSE, result |-> ResNone]

\* the record of a fetcher call right after its cache lookup
NewFetch(op, key, part, input, found, looked) ==
  [IdleFetch EXCEPT !.op = op, !.key = key, !.part = part, !.input = input,
                    !.found = found,
                    !.present = (looked # Null), !.looked = looked]

\* a caller that never calls a fetcher
OffFetch ==
  [IdleFetch EXCEPT !.pc = "off"]

\* a session in which one component at a time calls the fetchers
Init ==
  /\ storage = [k \in StorageKeys |-> NoText]
  /\ full = FALSE
  /\ audioCache = [k \in SpeechKeys |-> Null]
  /\ apiKey \in {"valid", "empty", "missing"}
  /\ started = 0
  /\ fetch = [c \in Callers |-> IF c = "c1" THEN IdleFetch ELSE OffFetch]
  /\ decode = IdleDecode
  /\ InitUI

\* a session with a configured credential in which two components call the
\* fetchers, so that their calls overlap
InitOverlap ==
  /\ storage = [k \in StorageKeys |-> NoText]
  /\ full = FALSE
  /\ audioCache = [k \in SpeechKeys |-> Null]
  /\ apiKey = "valid"
  /\ started = 0
  /\ fetch = [c \in Callers |-> IdleFetch]
  /\ decode = IdleDecode
  /\ InitUI

\* a session with a configured credential that finds, under every key of
\* the notes and the question set, an entry it did not write: an empty
\* string or a string that is not JSON
InitCorrupt ==
  /\ \E x \in {EmptyText, BadText} :
       storage = [k \in StorageKeys |->
                    IF k \in NoteKeys \cup PremiumKeys THEN x ELSE NoText]
  /\ full = FALSE
  /\ audioCache = [k \in SpeechKeys |-> Null]
  /\ apiKey = "valid"
  /\ started = 0
  /\ fetch = [c \in Callers |-> IF c = "c1" THEN IdleFetch ELSE OffFetch]
  /\ decode = IdleDecode
  /\ InitUI

\* decodeAudioData called with the bytes of a sequence of samples, or with
\* one byte more than that, and a number of channels
InitDecode ==
  /\ storage = [k \in StorageKeys |-> NoText]
  /\ full = FALSE
  /\ audioCache = [k \in SpeechKeys |-> Null]
  /\ apiKey = "valid"
  /\ started = 0
  /\ fetch = [c \in Callers |-> OffFetch]
  /\ \E ss \in SampleSeqs, tail \in {<< >>, << 0 >>},
        numChannels \in 1..MaxChannels :
       decode = [pc |-> "called", samples |-> ss,
                 data |-> PcmBytes(ss) \o tail,
                 numChannels |-> numChannels, out |-> NoBuffer]
  /\ InitUI

(***************************************************************************)
(* retryRequest                                                            *)
(***************************************************************************)
\* the fetchers that run their provider call under retryRequest
UsesRetry(op) ==
  op \in {"notes", "premium", "image"}

\* variant: every server error is retryable, error.status >= 500
IsRetryableServerError(status) ==
  status >= 500

\* error.status === 429 || error.status === 503 || error.status === 500
IsRetryable(status) ==
  status = 429 \/ status = 503 \/ status = 500

\* variant: every error is retried while retries remain
ShouldRetryAnyError(retries, status) ==
  retries > 0

\* variant: one retry more than the budget, retries >= 0
ShouldRetryOneMore(retries, status) ==
  retries >= 0 /\ IsRetryable(status)

\* variant: the last retry is never made
ShouldRetryOneLess(retries, status) ==
  retries > 1 /\ IsRetryable(status)

\* retries > 0 && (error.status === 429 || ... 503 || ... 500)
ShouldRetry(retries, status) ==
  retries > 0 /\ IsRetryable(status)

\* variant: linear instead of exponential backoff
NextDelayLinear(delay) ==
  delay + DefaultDelay

\* the delay passed to the recursive call
NextDelay(delay) ==
  delay * BackoffMultiplier

\* variant: the image fetcher has no catch block
SurfaceImageUncaught(op, e) ==
  IF op = "speech" THEN ResNull ELSE ResThrow(e)

\* what a fetcher does with an error of its provider call: the image and
\* the speech fetcher catch it and return null, the others let it through
Surface(op, e) ==
  IF op \in {"image", "speech"} THEN ResNull ELSE ResThrow(e)

\* the catch block of retryRequest (and of generateSpeech, which has no
\* retryRequest): wait and retry, or reject
Catch(f, e) ==
  LET g == [f EXCEPT !.failures = @ + 1, !.lastErr = e]
  IN  IF UsesRetry(f.op) /\ ShouldRetry(f.retries, e.status)
        THEN [g EXCEPT !.pc = "waiting", !.waits = Append(@, f.delay)]
        ELSE [g EXCEPT !.pc = "done", !.thrown = e,
                       !.result = Surface(f.op, e)]

\* new GoogleGenAI({ apiKey }) throws or not.  The fetchers do not look at
\* the key themselves; the SDK, which is outside this repository, may reject
\* a missing or empty key when the client is constructed, or accept it and
\* let the request fail.
CtorOutcomes ==
  IF apiKey = "valid" THEN {FALSE} ELSE {TRUE, FALSE}

\* one invocation of the operation up to its await: construct the client
\* and send the request
Invoke(f, ctorThrows) ==
  LET g == [f EXCEPT !.calls = @ + 1]
  IN  IF ctorThrows
        THEN Catch(g, Err(NoStatus, g.calls, "credential"))
        ELSE [g EXCEPT !.pc = "awaiting", !.provCalls = @ + 1]

\* the first call retryRequest(fn) with the default retries and delay
retryRequest(f, ctorThrows) ==
  Invoke([f EXCEPT !.retries = DefaultRetries, !.delay = DefaultDelay],
         ctorThrows)

CanStart(c) ==
  fetch[c].pc \in {"idle", "done"} /\ started < MaxCalls

Hit(f, v) ==
  [f EXCEPT !.pc = "done", !.result = ResValue(v)]

(***************************************************************************)
(* What the provider can answer                                            *)
(***************************************************************************)
\* the {} and [] literals of response.text || '{}' and response.text || '[]'
EmptyObj ==
  [t |-> "obj", req |-> NoKey, input |-> << >>, n |-> 0, part |-> NoPart]

EmptyArr ==
  [t |-> "arr", req |-> NoKey, input |-> << >>, n |-> 0, part |-> NoPart]

\* response.text of a notes request: undefined, "", not JSON, a document
\* declaring any part or none, or JSON that is not an object
NoteResponses(key) ==
  {NoText, EmptyText, BadText, JsonText(Zero)}
    \cup { JsonText(Obj(key, n, p)) : n \in Variants, p \in Parts \cup {NoPart} }

\* response.text of a question-set request
PremiumResponses(key) ==
  {NoText, EmptyText, BadText, JsonText(Zero), JsonText(Null)}
    \cup { JsonText(Arr(key, n)) : n \in Variants }

\* response of an image request: no candidates at all, parts without
\* inlineData, or a part with inlineData
ImageResponses(prompt) ==
  { [shape |-> "nocandidates", val |-> Null], [shape |-> "noinline", val |-> Null] }
    \cup { [shape |-> "inline", val |-> Img(prompt, n)] : n \in Variants }

\* response of a speech request: no inline audio, inline data atob rejects,
\* or inline audio
SpeechResponses(sent) ==
  { [shape |-> "noinline", val |-> Null], [shape |-> "badbase64", val |-> Null] }
    \cup { [shape |-> "inline", val |-> Audio(sent, n)] : n \in Variants }

(***************************************************************************)
(* localStorage.setItem                                                    *)
(***************************************************************************)
\* setItem throws QuotaExceededError when the quota is exhausted
SetItemThrows ==
  full

\* variant: an entry that exists is kept, the first writer wins
SetItemIfAbsent(key, text) ==
  IF SetItemThrows \/ storage[key].form # "absent"
    THEN storage
    ELSE [storage EXCEPT ![key] = text]

\* localStorage.setItem(key, text) called by fetch f: the storage after it
\* (unchanged when it throws)
SetItem(key, text) ==
  IF SetItemThrows THEN storage ELSE [storage EXCEPT ![key] = text]

\* variant: after the write the fetch returns the entry it found under its
\* key when the provider answered, if there was one
AfterPutReturnsFound(f, v) ==
  LET g == [f EXCEPT !.putAttempts = @ + 1]
      w == IF storage[f.key].form = "absent" THEN v ELSE storage[f.key].val
  IN  IF SetItemThrows
        THEN Catch([g EXCEPT !.putRejected = TRUE],
                   Err(NoStatus, f.calls, "quota"))
        ELSE [g EXCEPT !.pc = "done", !.result = ResValue(w)]

\* variant: the write is wrapped in a try block that ignores its failure,
\* the fetch returns the value whether or not it was stored
AfterPutIgnoresFailure(f, v) ==
  [f EXCEPT !.putAttempts = @ + 1, !.putRejected = SetItemThrows,
            !.pc = "done", !.result = ResValue(v)]

\* the fetch after its setItem call returned the value v, or threw
AfterPut(f, v) ==
  LET g == [f EXCEPT !.putAttempts = @ + 1]
  IN  IF SetItemThrows
        THEN Catch([g EXCEPT !.putRejected = TRUE],
                   Err(NoStatus, f.calls, "quota"))
        ELSE [g EXCEPT !.pc = "done", !.result = ResValue(v)]

(***************************************************************************)
(* generateChapterNotes                                                    *)
(***************************************************************************)
\* variant: { part, ...parsed }, a part declared by the provider wins
FinalNoteDeclaredWins(parsed, part) ==
  IF parsed.t \in {"obj", "arr"}
    THEN [parsed EXCEPT !.t = "obj",
                        !.part = IF parsed.part = NoPart THEN part ELSE @]
    ELSE [EmptyObj EXCEPT !.part = part]

\* { ...parsed, part }
FinalNote(parsed, part) ==
  IF parsed.t \in {"obj", "arr"}
    THEN [parsed EXCEPT !.t = "obj", !.part = part]
    ELSE [EmptyObj EXCEPT !.part = part]

\* the call up to its first await: cache lookup, then the first attempt
generateChapterNotes(c, subjectId, chapterTitle, part) ==
  /\ CanStart(c)
  /\ LET cacheKey == NoteKey(subjectId, chapterTitle, part)
         cached == getCachedData(storage, cacheKey)
         f == NewFetch("notes", cacheKey, part, << >>, storage[cacheKey],
                       cached)
     IN  IF Truthy(cached)
           THEN fetch' = [fetch EXCEPT ![c] = Hit(f, cached)]
           ELSE \E t \in CtorOutcomes :
                  fetch' = [fetch EXCEPT ![c] = retryRequest(f, t)]
  /\ started' = started + 1
  /\ UNCHANGED << storage, full, audioCache, apiKey, decode, uiVars >>

\* the operation after generateContent resolved: parse, override the part,
\* store, return
ChapterNotesResponse(c) ==
  /\ fetch[c].pc = "awaiting"
  /\ fetch[c].op = "notes"
  /\ apiKey = "valid"
  /\ \E raw \in NoteResponses(fetch[c].key) :
       LET f == [fetch[c] EXCEPT !.raw = raw]
           text == IF TruthyText(raw) THEN raw ELSE JsonText(EmptyObj)
           parsed == JSONParse(text)
           finalNote == FinalNote(parsed, f.part)
           g == [f EXCEPT !.got = TRUE, !.payload = finalNote,
                          !.declared = parsed.part]
       IN  IF JSONParseThrows(text)
             THEN /\ fetch' = [fetch EXCEPT ![c] =
                                 Catch(f, Err(NoStatus, f.calls, "parse"))]
                  /\ UNCHANGED storage
             ELSE /\ fetch' = [fetch EXCEPT ![c] = AfterPut(g, finalNote)]
                  /\ storage' = SetItem(f.key, JSONStringify(finalNote))
  /\ UNCHANGED << full, audioCache, apiKey, started, decode, uiVars >>

(***************************************************************************)
(* generatePremiumQuestions                                                *)
(***************************************************************************)
generatePremiumQuestions(c, subjectId) ==
  /\ CanStart(c)
  /\ LET cacheKey == PremiumKey(subjectId)
         cached == getCachedData(storage, cacheKey)
         f == NewFetch("premium", cacheKey, NoPart, << >>,
                       storage[cacheKey], cached)
     IN  IF Truthy(cached)
           THEN fetch' = [fetch EXCEPT ![c] = Hit(f, cached)]
           ELSE \E t \in CtorOutcomes :
                  fetch' = [fetch EXCEPT ![c] = retryRequest(f, t)]
  /\ started' = started + 1
  /\ UNCHANGED << storage, full, audioCache, apiKey, decode, uiVars >>

PremiumQuestionsResponse(c) ==
  /\ fetch[c].pc = "awaiting"
  /\ fetch[c].op = "premium"
  /\ apiKey = "valid"
  /\ \E raw \in PremiumResponses(fetch[c].key) :
       LET f == [fetch[c] EXCEPT !.raw = raw]
           text == IF TruthyText(raw) THEN raw ELSE JsonText(EmptyArr)
           parsed == JSONParse(text)
           g == [f EXCEPT !.got = TRUE, !.payload = parsed]
       IN  IF JSONParseThrows(text)
             THEN /\ fetch' = [fetch EXCEPT ![c] =
                                 Catch(f, Err(NoStatus, f.calls, "parse"))]
                  /\ UNCHANGED storage
             ELSE /\ fetch' = [fetch EXCEPT ![c] = AfterPut(g, parsed)]
                  /\ storage' = SetItem(f.key, JSONStringify(parsed))
  /\ UNCHANGED << full, audioCache, apiKey, started, decode, uiVars >>

(***************************************************************************)
(* generateAestheticImage                                                  *)
(***************************************************************************)
\* btoa(prompt) runs before the try block: its exception rejects the call.
\* The cached string is returned raw when it is truthy.
generateAestheticImage(c, prompt) ==
  /\ CanStart(c)
  /\ IF BtoaThrows(prompt)
       THEN fetch' = [fetch EXCEPT ![c] =
              [NewFetch("image", NoKey, NoPart, prompt, NoText, Null) EXCEPT
                 !.pc = "done",
                 !.result = ResThrow(Err(NoStatus, 0, "btoa"))]]
       ELSE LET cacheKey == ImgKey(prompt)
                cached == storage[cacheKey]
                f == NewFetch("image", cacheKey, NoPart, prompt, cached,
                              cached.val)
            IN  IF TruthyText(cached)
                  THEN fetch' = [fetch EXCEPT ![c] = Hit(f, cached.val)]
                  ELSE \E t \in CtorOutcomes :
                         fetch' = [fetch EXCEPT ![c] = retryRequest(f, t)]
  /\ started' = started + 1
  /\ UNCHANGED << storage, full, audioCache, apiKey, decode, uiVars >>

\* the operation after generateContent resolved: find the inline image
\* part, store its data URI, return it; null when there is none
AestheticImageResponse(c) ==
  /\ fetch[c].pc = "awaiting"
  /\ fetch[c].op = "image"
  /\ apiKey = "valid"
  /\ \E r \in ImageResponses(fetch[c].input) :
       LET f == fetch[c]
           g == [f EXCEPT !.got = TRUE, !.payload = r.val]
       IN  CASE r.shape = "nocandidates" ->
                  /\ fetch' = [fetch EXCEPT ![c] =
                                 Catch(f, Err(NoStatus, f.calls, "type"))]
                  /\ UNCHANGED storage
             [] r.shape = "noinline" ->
                  /\ fetch' = [fetch EXCEPT ![c] =
                                 [f EXCEPT !.pc = "done", !.result = ResNull]]
                  /\ UNCHANGED storage
             [] r.shape = "inline" ->
                  /\ fetch' = [fetch EXCEPT ![c] = AfterPut(g, r.val)]
                  /\ storage' = SetItem(f.key, DataUri(r.val))
  /\ UNCHANGED << full, audioCache, apiKey, started, decode, uiVars >>

(***************************************************************************)
(* generateSpeech                                                          *)
(***************************************************************************)
\* variant: audioCache.has(text), the map is asked for the text and not
\* for the hash it is keyed by
AudioCacheHasText(hash) ==
  FALSE

\* audioCache.has(hash)
AudioCacheHas(hash) ==
  audioCache[hash] # Null

\* btoa(...) runs before the try block.  No retryRequest: the client is
\* constructed and the request sent inside the try block.
generateSpeech(c, text, isSummary) ==
  /\ CanStart(c)
  /\ IF BtoaThrows(HashInput(text, isSummary))
       THEN fetch' = [fetch EXCEPT ![c] =
              [NewFetch("speech", NoKey, NoPart, SpeechSent(text, isSummary),
                        NoText, Null)
                 EXCEPT !.pc = "done",
                        !.result = ResThrow(Err(NoStatus, 0, "btoa"))]]
       ELSE LET hash == SpeechKey(text, isSummary)
                cached == audioCache[hash]
                f == NewFetch("speech", hash, NoPart,
                              SpeechSent(text, isSummary), NoText, cached)
            IN  IF AudioCacheHas(hash)
                  THEN fetch' = [fetch EXCEPT ![c] = Hit(f, cached)]
                  ELSE \E t \in CtorOutcomes :
                         fetch' = [fetch EXCEPT ![c] = Invoke(f, t)]
  /\ started' = started + 1
  /\ UNCHANGED << storage, full, audioCache, apiKey, decode, uiVars >>

\* after generateContent resolved: decode the inline audio, put the buffer
\* into audioCache, return it; null when there is no inline audio
SpeechResponse(c) ==
  /\ fetch[c].pc = "awaiting"
  /\ fetch[c].op = "speech"
  /\ apiKey = "valid"
  /\ \E r \in SpeechResponses(fetch[c].input) :
       LET f == fetch[c]
       IN  CASE r.shape = "noinline" ->
                  /\ fetch' = [fetch EXCEPT ![c] =
                                 [f EXCEPT !.pc = "done", !.result = ResNull]]
                  /\ UNCHANGED audioCache
             [] r.shape = "badbase64" ->
                  /\ fetch' = [fetch EXCEPT ![c] =
                                 Catch(f, Err(NoStatus, f.calls, "atob"))]
                  /\ UNCHANGED audioCache
             [] r.shape = "inline" ->
                  /\ fetch' = [fetch EXCEPT ![c] =
                                 [f EXCEPT !.pc = "done", !.got = TRUE,
                                           !.payload = r.val,
                                           !.result = ResValue(r.val)]]
                  /\ audioCache' = [audioCache EXCEPT ![f.key] = r.val]
  /\ UNCHANGED << storage, full, apiKey, started, decode, uiVars >>

(***************************************************************************)
(* The provider call fails, the backoff timer fires, the storage fills     *)
(***************************************************************************)
\* generateContent rejects with an error of some status
ProviderError(c) ==
  /\ fetch[c].pc = "awaiting"
  /\ \E status \in Statuses :
       fetch' = [fetch EXCEPT ![c] =
                   Catch(fetch[c], Err(status, fetch[c].calls, "provider"))]
  /\ UNCHANGED << storage, full, audioCache, apiKey, started, decode, uiVars >>

\* the setTimeout of retryRequest fires: retryRequest(fn, retries - 1, delay * 2)
BackoffElapsed(c) ==
  /\ fetch[c].pc = "waiting"
  /\ \E t \in CtorOutcomes :
       fetch' = [fetch EXCEPT ![c] =
                   Invoke([fetch[c] EXCEPT !.retries = @ - 1,
                                           !.delay = NextDelay(@)], t)]
  /\ UNCHANGED << storage, full, audioCache, apiKey, started, decode, uiVars >>

\* other data of the page (download records, the user archive) uses up
\* the quota of localStorage
StorageFills ==
  /\ ~full
  /\ full' = TRUE
  /\ UNCHANGED << storage, audioCache, apiKey, started, fetch, decode, uiVars >>

Next ==
  \/ \E c \in Callers, s \in Subjects, t \in Titles, p \in Parts :
       generateChapterNotes(c, s, t, p)
  \/ \E c \in Callers : ChapterNotesResponse(c)
  \/ \E c \in Callers, s \in Subjects : generatePremiumQuestions(c, s)
  \/ \E c \in Callers : PremiumQuestionsResponse(c)
  \/ \E c \in Callers, p \in Prompts : generateAestheticImage(c, p)
  \/ \E c \in Callers : AestheticImageResponse(c)
  \/ \E c \in Callers, t \in Texts, m \in BOOLEAN : generateSpeech(c, t, m)
  \/ \E c \in Callers : SpeechResponse(c)
  \/ \E c \in Callers : ProviderError(c)
  \/ \E c \in Callers : BackoffElapsed(c)
  \/ StorageFills

Spec == Init /\ [][Next]_vars

\* decodeAudioData runs to its end
DecodeAudioDataReturn ==
  /\ decode.pc = "called"
  /\ decode' = [decode EXCEPT !.pc = "done",
                              !.out = decodeAudioData(decode.data,
                                                      decode.numChannels)]
  /\ UNCHANGED << storage, full, audioCache, apiKey, started, fetch, uiVars >>

NextDecode ==
  DecodeAudioDataReturn

SpecDecode == InitDecode /\ [][NextDecode]_vars

\* the steps of two components whose fetcher calls overlap while the
\* provider answers every request and the storage has room; the failures
\* of the provider call, the retries and the exhausted quota are the steps
\* of Next
NextOverlap ==
  \/ \E c \in Callers, s \in Subjects, t \in Titles, p \in Parts :
       generateChapterNotes(c, s, t, p)
  \/ \E c \in Callers : ChapterNotesResponse(c)
  \/ \E c \in Callers, s \in Subjects : generatePremiumQuestions(c, s)
  \/ \E c \in Callers : PremiumQuestionsResponse(c)
  \/ \E c \in Callers, p \in Prompts : generateAestheticImage(c, p)
  \/ \E c \in Callers : AestheticImageResponse(c)
  \/ \E c \in Callers, t \in Texts, m \in BOOLEAN : generateSpeech(c, t, m)
  \/ \E c \in Callers : SpeechResponse(c)

SpecOverlap == InitOverlap /\ [][NextOverlap]_vars

\* the steps of the two fetchers that look their key up with getCachedData
NextCorrupt ==
  \/ \E c \in Callers, s \in Subjects, t \in Titles, p \in Parts :
       generateChapterNotes(c, s, t, p)
  \/ \E c \in Callers : ChapterNotesResponse(c)
  \/ \E c \in Callers, s \in Subjects : generatePremiumQuestions(c, s)
  \/ \E c \in Callers : PremiumQuestionsResponse(c)
  \/ \E c \in Callers : ProviderError(c)
  \/ \E c \in Callers : BackoffElapsed(c)
  \/ StorageFills

SpecCorrupt == InitCorrupt /\ [][NextCorrupt]_vars

\* the steps of two fetchers that run their provider call under
\* retryRequest, one storing a parsed document and one storing raw text
NextRetry ==
  \/ \E c \in Callers, s \in Subjects : generatePremiumQuestions(c, s)
  \/ \E c \in Callers : PremiumQuestionsResponse(c)
  \/ \E c \in Callers, p \in Prompts : generateAestheticImage(c, p)
  \/ \E c \in Callers : AestheticImageResponse(c)
  \/ \E c \in Callers : ProviderError(c)
  \/ \E c \in Callers : BackoffElapsed(c)

\* the provider call of caller c settles: generateContent resolves or
\* rejects
AttemptSettles(c) ==
  \/ PremiumQuestionsResponse(c)
  \/ AestheticImageResponse(c)
  \/ ProviderError(c)

\* every provider call settles and every setTimeout of retryRequest fires
RetryFairness ==
  \A c \in Callers :
    WF_vars(AttemptSettles(c)) /\ WF_vars(BackoffElapsed(c))

SpecRetryFair == Init /\ [][NextRetry]_vars /\ RetryFairness

(***************************************************************************)
(* Properties                                                              *)
(***************************************************************************)
RECURSIVE Pow(_, _)
Pow(b, e) ==
  IF e = 0 THEN 1 ELSE b * Pow(b, e - 1)

\* C1: if the cache lookup of a fetcher returns a present (non-null) value,
\* the fetcher returns that value, calls the provider zero times and waits
\* zero times.
C1_CacheHitShortCircuit ==
  \A c \in Callers :
    LET f == fetch[c]
    IN  (f.pc # "idle" /\ f.present) =>
          /\ f.pc = "done"
          /\ f.result = ResValue(f.looked)
          /\ f.calls = 0
          /\ f.provCalls = 0
          /\ f.waits = << >>

\* C2: under the default policy, when the operation fails k times with a
\* retryable error and then succeeds, it was called k+1 times, the i-th retry
\* was preceded by a wait of 1000 * 2^(i-1), and the success value is returned.
C2_BackoffSchedule ==
  \A c \in Callers :
    LET f == fetch[c]
    IN  (UsesRetry(f.op) /\ f.pc = "done" /\ f.got /\ f.result.kind = "value") =>
          /\ f.failures <= 5
          /\ f.calls = f.failures + 1
          /\ Len(f.waits) = f.failures
          /\ \A i \in 1..Len(f.waits) : f.waits[i] = 1000 * Pow(2, i - 1)
          /\ f.result.val = f.payload

\* four retryable failures, then success: waits of 1000, 2000, 4000, 8000
C2_Witness ==
  \E c \in Callers :
    /\ UsesRetry(fetch[c].op)
    /\ fetch[c].pc = "done"
    /\ fetch[c].result.kind = "value"
    /\ fetch[c].failures = 4
    /\ fetch[c].calls = 5
    /\ fetch[c].waits = << 1000, 2000, 4000, 8000 >>

\* C3: when an attempt of retryRequest's operation fails with a terminal
\* error (a status other than 429, 503, 500, or none at all, as for a
\* response that fails to parse), no further attempt and no wait follows and
\* that error is the one propagated; on the first attempt the operation is
\* called exactly once.
C3_TerminalErrorShortCircuit ==
  \A c \in Callers :
    LET f == fetch[c]
    IN  (UsesRetry(f.op) /\ f.lastErr # NoErr
           /\ f.lastErr.status \notin {429, 503, 500}) =>
          /\ f.pc = "done"
          /\ f.thrown = f.lastErr
          /\ f.calls = f.lastErr.attempt
          /\ Len(f.waits) = f.calls - 1
          /\ f.failures = f.calls
          /\ (f.op \in {"notes", "premium"} => f.result = ResThrow(f.lastErr))

\* a malformed-request error on the third attempt, after two retried ones
C3_Witness ==
  \E c \in Callers :
    /\ fetch[c].op \in {"notes", "premium"}
    /\ fetch[c].pc = "done"
    /\ fetch[c].result.kind = "throw"
    /\ fetch[c].waits = << 1000, 2000 >>
    /\ fetch[c].result.err = Err(400, 3, "provider")

\* C4: when the operation always fails with a retryable error, it is called
\* exactly 6 times and the error propagated is that of the 6th attempt.
C4_RetryExhaustion ==
  \A c \in Callers :
    LET f == fetch[c]
    IN  (UsesRetry(f.op) /\ f.pc = "done" /\ f.thrown # NoErr
           /\ f.thrown.status \in {429, 503, 500}) =>
          /\ f.calls = 6
          /\ f.provCalls = 6
          /\ f.failures = 6
          /\ Len(f.waits) = 5
          /\ f.thrown.attempt = 6
          /\ f.thrown = f.lastErr
          /\ (f.op \in {"notes", "premium"} => f.result = ResThrow(f.thrown))

\* six attempts, all failed with a retryable error, the last with 503
C4_Witness ==
  \E c \in Callers :
    /\ fetch[c].op \in {"notes", "premium"}
    /\ fetch[c].pc = "done"
    /\ fetch[c].failures = 6
    /\ fetch[c].result = ResThrow(Err(503, 6, "provider"))

\* C5: on a cache miss with a successful provider response, the document
\* generateChapterNotes returns and the document it stored both have the part
\* the caller supplied, whatever part the response declares.
C5_PartOverride ==
  /\ \A c \in Callers :
       LET f == fetch[c]
       IN  (f.op = "notes" /\ f.pc = "done" /\ f.calls > 0
              /\ f.result.kind = "value") =>
             /\ f.result.val.part = f.part
             /\ storage[f.key].form = "json"
             /\ storage[f.key].val.part = f.part
  /\ \A k \in NoteKeys : storage[k] # NoText => storage[k].val.part = k.part

\* the provider declared another part than the caller asked for
C5_Witness ==
  \E c \in Callers :
    /\ fetch[c].op = "notes"
    /\ fetch[c].pc = "done"
    /\ fetch[c].result.kind = "value"
    /\ fetch[c].declared # NoPart
    /\ fetch[c].declared # fetch[c].part
    /\ fetch[c].part = 2

\* C6: for the notes, question-set and image fetchers, when the provider call
\* succeeded and the storage rejected the write of the result, the fetch
\* still returns the payload obtained from the provider.
C6_WriteFailureKeepsPayload ==
  \A c \in Callers :
    LET f == fetch[c]
    IN  (f.op \in {"notes", "premium", "image"} /\ f.pc = "done"
           /\ f.got /\ f.putRejected) =>
          f.result = ResValue(f.payload)

\* C7: when the storage rejects a write for being full, every image-cache
\* key is deleted, the write is retried exactly once, and no error is raised.
C7_QuotaEviction ==
  \A c \in Callers :
    LET f == fetch[c]
    IN  f.putRejected =>
          /\ \A k \in ImgKeys : k # f.key => storage[k] = NoText
          /\ f.putAttempts = 2
          /\ f.lastErr.src # "quota"

\* C8: on a cache miss, any provider failure of the image or the speech
\* fetcher (an error of any status, retryable errors past the retry limit, a
\* response without inline payload) resolves to null and is never raised.
C8_ImageSpeechFaultTolerance ==
  \A c \in Callers :
    LET f == fetch[c]
    IN  (f.op \in {"image", "speech"} /\ f.pc = "done" /\ f.calls > 0
           /\ (f.thrown # NoErr \/ f.payload = Null)) =>
          f.result = ResNull

\* the image fetcher after six attempts that all failed
C8_Witness ==
  \E c \in Callers :
    /\ fetch[c].op = "image"
    /\ fetch[c].pc = "done"
    /\ fetch[c].calls = 6
    /\ fetch[c].thrown = Err(429, 6, "provider")
    /\ fetch[c].result = ResNull

\* C9: generateAestheticImage and generateSpeech never fail, whatever the
\* input string: every call resolves to a value or to null.
C9_ImageSpeechNeverFail ==
  \A c \in Callers :
    (fetch[c].op \in {"image", "speech"} /\ fetch[c].pc = "done") =>
      fetch[c].result.kind \in {"value", "null"}

\* C10: with a missing or empty credential, a fetch that misses the cache
\* fails with the missing-credential error before any provider call and
\* without any wait, and the notes and question-set fetchers propagate it.
C10_MissingCredentialFailsFast ==
  \A c \in Callers :
    LET f == fetch[c]
    IN  (apiKey # "valid" /\ f.pc # "idle" /\ f.key # NoKey /\ f.calls > 0) =>
          /\ f.pc = "done"
          /\ f.provCalls = 0
          /\ f.waits = << >>
          /\ f.lastErr.src = "credential"
          /\ (f.op \in {"notes", "premium"} => f.result = ResThrow(f.lastErr))

\* C11: every fetcher (notes, question set, image, speech) runs its provider
\* call under retryRequest: a provider failure with status 429, 500 or 503
\* at an attempt that has attempts remaining is followed by a backoff wait
\* and another provider call.
C11_AllFetchersRetry ==
  \A c \in Callers :
    LET f == fetch[c]
    IN  (f.op \in {"notes", "premium", "image", "speech"}
           /\ f.lastErr.src = "provider"
           /\ f.lastErr.status \in {429, 500, 503}
           /\ f.lastErr.attempt <= DefaultRetries) =>
          \/ f.pc = "waiting" /\ Len(f.waits) = f.lastErr.attempt
          \/ f.calls > f.lastErr.attempt

\* C12: a response of the notes or the question-set request that does not
\* decode into the expected document (no text, empty text, text that is not
\* JSON, JSON that is not a document) makes the fetch fail with a decode
\* error; it is never returned as a document and never written to the cache.
C12_MalformedResponseRejected ==
  \A c \in Callers :
    LET f == fetch[c]
        responded == f.got \/ f.lastErr.src = "parse"
        malformed == \/ f.raw.form \in {"absent", "empty", "bad"}
                     \/ f.raw.val.t \notin {"obj", "arr"}
    IN  (f.op \in {"notes", "premium"} /\ f.pc = "done" /\ responded
           /\ malformed) =>
          /\ f.result.kind = "throw"
          /\ f.result.err.src = "parse"
          /\ f.putAttempts = 0

\* C13: cache round trip: after a fetcher wrote the payload P under the key
\* K, reading K through that fetcher's cache lookup (getCachedData for the
\* notes and the question set, the raw string for the image) yields a
\* present value equivalent to P.
C13_CacheRoundTrip ==
  \A c \in Callers :
    LET f == fetch[c]
    IN  (f.op \in {"notes", "premium", "image"} /\ f.pc = "done"
           /\ f.putAttempts = 1 /\ ~f.putRejected) =>
          IF f.op = "image"
            THEN /\ TruthyText(storage[f.key])
                 /\ storage[f.key] = DataUri(f.payload)
            ELSE /\ getCachedData(storage, f.key) # Null
                 /\ getCachedData(storage, f.key) = f.payload

\* C14: the cache lookup never raises: for a key whose entry is missing,
\* empty or not parseable, getCachedData returns null, and the notes and
\* the question-set fetcher go on as on a miss: they call the provider, and
\* a call that completes stores the fresh result and returns it.
C14_CorruptEntryIsMiss ==
  \A c \in Callers :
    LET f == fetch[c]
    IN  (f.op \in {"notes", "premium"} /\ f.pc \in {"awaiting", "waiting", "done"}
           /\ f.found.form \in {"absent", "empty", "bad"}) =>
          /\ f.looked = Null
          /\ ~f.present
          /\ f.provCalls >= 1
          /\ (f.pc = "done" /\ f.got /\ ~f.putRejected) =>
               /\ f.result = ResValue(f.payload)
               /\ storage[f.key] = [form |-> "json", val |-> f.payload]

\* a question-set call that found an unparseable entry under its key and
\* replaced it by the array the provider generated
C14_Witness ==
  \E c \in Callers :
    /\ fetch[c].op = "premium"
    /\ fetch[c].pc = "done"
    /\ fetch[c].found = BadText
    /\ fetch[c].provCalls = 1
    /\ fetch[c].result = ResValue(Arr(fetch[c].key, 1))
    /\ storage[fetch[c].key] = JsonText(Arr(fetch[c].key, 1))

C17_NoInFlightDedup ==
  [][\A c \in Callers :
       LET f == fetch[c]
           g == fetch'[c]
       IN  /\ (f.pc \in {"idle", "done"} /\ g # f /\ g.key # NoKey
                 /\ (\E d \in Callers \ {c} :
                       /\ fetch[d].pc = "awaiting"
                       /\ fetch[d].op = g.op
                       /\ fetch[d].key = g.key)
                 /\ (IF g.op = "speech"
                       THEN audioCache[g.key] = Null
                       ELSE storage[g.key].form = "absent")) =>
                /\ ~g.present
                /\ g.pc = "awaiting"
                /\ g.provCalls = 1
                /\ \A d \in Callers \ {c} :
                     (fetch'[d].pc = "awaiting" /\ fetch'[d].key = g.key) =>
                       fetch'[d].provCalls = 1
           /\ (f.pc = "awaiting" /\ g.pc = "done" /\ g.result.kind = "value") =>
                /\ g.result.val = g.payload
                /\ IF g.op = "speech"
                     THEN audioCache'[g.key] = g.payload
                     ELSE storage'[g.key] =
                            [form |-> IF g.op = "image" THEN "datauri" ELSE "json",
                             val |-> g.payload]
  ]_vars

\* two notes fetches for one key that both called the provider and got
\* different documents; the entry is the second document
C17_Witness ==
  /\ fetch["c1"].op = "notes"
  /\ fetch["c2"].op = "notes"
  /\ fetch["c1"].key = fetch["c2"].key
  /\ fetch["c1"].pc = "done" /\ fetch["c2"].pc = "done"
  /\ fetch["c1"].provCalls = 1 /\ fetch["c2"].provCalls = 1
  /\ fetch["c1"].result = ResValue(Obj(fetch["c1"].key, 1, fetch["c1"].part))
  /\ fetch["c2"].result = ResValue(Obj(fetch["c2"].key, 2, fetch["c2"].part))
  /\ storage[fetch["c1"].key] = JsonText(fetch["c2"].payload)

C19_CacheStability ==
  \A c \in Callers :
    LET f == fetch[c]
    IN  (f.op \in {"notes", "premium", "image"}
           /\ f.pc \in {"awaiting", "waiting", "done"}
           /\ f.found.form # "absent") =>
          /\ f.pc = "done"
          /\ f.result = ResValue(f.found.val)
          /\ f.calls = 0
          /\ f.provCalls = 0
          /\ storage[f.key] = f.found

C21_WriteBeforeResolve ==
  [][\A c \in Callers :
       LET f == fetch[c]
           g == fetch'[c]
       IN  (f.pc = "awaiting" /\ g.pc = "done" /\ g.result.kind = "value"
              /\ g.op \in {"notes", "premium", "image"}) =>
             /\ g.putAttempts = 1
             /\ ~g.putRejected
             /\ storage'[g.key] =
                  [form |-> IF g.op = "image" THEN "datauri" ELSE "json",
                   val |-> g.result.val]
  ]_vars

\* an image fetch that got its image at the third attempt and returned it,
\* the data URI being stored
C21_Witness ==
  \E c \in Callers :
    /\ fetch[c].op = "image"
    /\ fetch[c].pc = "done"
    /\ fetch[c].calls = 3
    /\ fetch[c].result = ResValue(Img(fetch[c].input, 1))
    /\ storage[fetch[c].key] = DataUri(Img(fetch[c].input, 1))

\* C22: retryRequest treats a failure as retryable if and only if its status
\* is 429, 503 or 500: after a failed attempt that has retries remaining the
\* executor waits for the backoff exactly when the status is one of these;
\* with any other status, or with no status, it rejects with that error.
C22_RetryableIffTransient ==
  \A c \in Callers :
    LET f == fetch[c]
        e == f.lastErr
    IN  (f.op \in {"notes", "premium", "image"} /\ e # NoErr) =>
          /\ (e.attempt = f.calls /\ e.attempt <= DefaultRetries) =>
               /\ (e.status \in {429, 503, 500}) <=> (f.pc = "waiting")
               /\ (e.status \notin {429, 503, 500}) <=>
                    (f.pc = "done" /\ f.thrown = e)
          /\ f.calls > e.attempt => e.status \in {429, 503, 500}

\* a question-set fetch rejected at its first attempt, five retries left,
\* by an error of the provider call that has no status
C22_Witness ==
  \E c \in Callers :
    /\ fetch[c].op = "premium"
    /\ fetch[c].pc = "done"
    /\ fetch[c].retries = DefaultRetries
    /\ fetch[c].thrown = Err(NoStatus, 1, "provider")
    /\ fetch[c].waits = << >>

\* C23: retryRequest terminates after a bounded number of attempts: whatever
\* the outcomes of the attempts, it makes at most DefaultRetries + 1 of
\* them, and, every attempt settling and every wait ending, a call that is
\* awaiting the provider or waiting for its backoff is eventually done,
\* with a value or with an error.
C23_RetryTerminates ==
  /\ [](\A c \in Callers :
          /\ fetch[c].calls <= DefaultRetries + 1
          /\ Len(fetch[c].waits) <= DefaultRetries)
  /\ \A c \in Callers :
       (fetch[c].pc \in {"awaiting", "waiting"}) ~>
         (fetch[c].pc = "done" /\ fetch[c].result.kind \in {"value", "throw", "null"})

\* a question-set fetch that made all six attempts and got its answer at
\* the last
C23_Witness ==
  \E c \in Callers :
    /\ fetch[c].op = "premium"
    /\ fetch[c].pc = "done"
    /\ fetch[c].calls = DefaultRetries + 1
    /\ fetch[c].retries = 0
    /\ fetch[c].result.kind = "value"

(***************************************************************************)
(* NoteRenderer: the audio controls                                        *)
(***************************************************************************)

serviceVars == << storage, full, audioCache, apiKey, started, fetch, decode >>

\* the services at rest: the components below see the fetchers only as
\* calls that resolve later
InitServicesIdle ==
  /\ storage = [k \in StorageKeys |-> NoText]
  /\ full = FALSE
  /\ audioCache = [k \in SpeechKeys |-> Null]
  /\ apiKey = "valid"
  /\ started = 0
  /\ fetch = [c \in Callers |-> OffFetch]
  /\ decode = IdleDecode

\* setAudioMode: a state update of an unmounted component is dropped
SetAudioMode(mode) ==
  IF mounted THEN mode ELSE audioMode

\* source.stop() through the ref: a source that is playing falls silent and
\* its ended event is queued; null, or a source that already stopped, is
\* left alone
StopCurrentSource ==
  [i \in 1..MaxClicks |->
     IF i = sourceNodeRef /\ sources[i] = "playing"
     THEN "ending" ELSE sources[i]]

\* the runs of handleStartAudio that are awaiting generateSpeech when the
\* playback is stopped or the component is torn down
MarkStale ==
  [i \in 1..MaxClicks |->
     IF speechCalls[i].pc = "inflight"
     THEN [speechCalls[i] EXCEPT !.stale = TRUE] ELSE speechCalls[i]]

\* stopAudio, the onClick of STOP LECTURE, which is rendered while audioMode
\* is "playing"
stopAudio ==
  /\ mounted /\ audioMode = "playing"
  /\ sources' = StopCurrentSource
  /\ audioMode' = "idle"
  /\ speechCalls' = MarkStale
  /\ UNCHANGED << mounted, sourceNodeRef, diagramVars,
                  serviceVars,
                  chapterVars, vaultVars >>

\* handleStartAudio up to its await of generateSpeech, the onClick of RECAP
\* and LECTURE, which are rendered unless audioMode is "loading" or "playing"
handleStartAudio(isSummary) ==
  /\ mounted /\ audioMode \notin {"loading", "playing"}
  /\ \E i \in 1..MaxClicks :
       /\ speechCalls[i].pc = "unused"
       /\ \A j \in 1..(i - 1) : speechCalls[j].pc # "unused"
       /\ IF audioMode = "playing"
          THEN /\ sources' = StopCurrentSource
               /\ audioMode' = "idle"
               /\ speechCalls' = MarkStale
          ELSE /\ audioMode' = "loading"
               /\ speechCalls' =
                    [speechCalls EXCEPT ![i] = [pc |-> "inflight",
                                                isSummary |-> isSummary,
                                                stale |-> FALSE]]
               /\ UNCHANGED sources
  /\ UNCHANGED << mounted, sourceNodeRef, diagramVars,
                  serviceVars,
                  chapterVars, vaultVars >>

\* handleStartAudio after its await: generateSpeech resolved with a buffer
\* or with null
SpeechResolved(i, hasBuffer) ==
  /\ speechCalls[i].pc = "inflight"
  /\ speechCalls' = [speechCalls EXCEPT ![i].pc = "resolved"]
  /\ IF ~hasBuffer
     THEN /\ audioMode' = SetAudioMode("idle")
          /\ UNCHANGED << sourceNodeRef, sources >>
     ELSE /\ sources' = [sources EXCEPT ![i] = "playing"]
          /\ sourceNodeRef' = i
          /\ audioMode' = SetAudioMode("playing")
  /\ UNCHANGED << mounted, diagramVars,
                  serviceVars,
                  chapterVars, vaultVars >>

\* a source plays its buffer to the end: its ended event is queued
SourceFinishes(i) ==
  /\ sources[i] = "playing"
  /\ sources' = [sources EXCEPT ![i] = "ending"]
  /\ UNCHANGED << mounted, audioMode, sourceNodeRef, speechCalls,
                  diagramVars,
                  serviceVars,
                  chapterVars, vaultVars >>

\* source.onended
OnEnded(i) ==
  /\ sources[i] = "ending"
  /\ sources' = [sources EXCEPT ![i] = "ended"]
  /\ audioMode' = SetAudioMode("idle")
  /\ UNCHANGED << mounted, sourceNodeRef, speechCalls, diagramVars,
                  serviceVars,
                  chapterVars, vaultVars >>

\* the cleanup of the effect: the component is torn down
UnmountNoteRenderer ==
  /\ mounted
  /\ mounted' = FALSE
  /\ sources' = StopCurrentSource
  /\ speechCalls' = MarkStale
  /\ UNCHANGED << audioMode, sourceNodeRef, diagramVars,
                  serviceVars,
                  chapterVars, vaultVars >>

InitAudio ==
  /\ InitServicesIdle
  /\ InitUI

(***************************************************************************)
(* ChapterView                                                             *)
(***************************************************************************)
\* fetchNote up to its await: setLoading(true), setError(null),
\* generateChapterNotes called with the parameters of the route
fetchNote(part) ==
  /\ \E i \in 1..MaxNoteFetches :
       /\ noteFetches[i].pc = "unused"
       /\ \A j \in 1..(i - 1) : noteFetches[j].pc # "unused"
       /\ noteFetches' =
            [noteFetches EXCEPT ![i] = [pc |-> "inflight", part |-> part]]
  /\ loading' = TRUE
  /\ error' = NoError

\* the route changes to another part of the chapter: the effect runs
\* fetchNote
ChapterRouteChange(part) ==
  /\ chapterPart # NoPart
  /\ part # chapterPart
  /\ chapterPart' = part
  /\ fetchNote(part)
  /\ UNCHANGED << note, audioVars, vaultVars, diagramVars,
                  serviceVars >>

\* the retry button of the error screen
ChapterRetryClick ==
  /\ chapterPart # NoPart
  /\ ~loading
  /\ error # NoError
  /\ fetchNote(chapterPart)
  /\ UNCHANGED << chapterPart, note, audioVars, vaultVars, diagramVars,
                  serviceVars >>

\* the message of the catch block
ChapterErrorMessage(kind) ==
  IF kind = "apikey" THEN "CRITICAL ERROR: API Key missing"
  ELSE "Failed to load notes"

\* fetchNote after its await: generateChapterNotes resolved with the note
\* of the part it was called for
NoteFetchResolved(i) ==
  /\ noteFetches[i].pc = "inflight"
  /\ noteFetches' = [noteFetches EXCEPT ![i].pc = "done"]
  /\ note' = noteFetches[i].part
  /\ loading' = FALSE
  /\ UNCHANGED << chapterPart, error, audioVars, vaultVars, diagramVars,
                  serviceVars >>

\* fetchNote after its await: generateChapterNotes rejected
NoteFetchRejected(i, kind) ==
  /\ noteFetches[i].pc = "inflight"
  /\ noteFetches' = [noteFetches EXCEPT ![i].pc = "done"]
  /\ error' = ChapterErrorMessage(kind)
  /\ loading' = FALSE
  /\ UNCHANGED << chapterPart, note, audioVars, vaultVars, diagramVars,
                  serviceVars >>

InitChapter ==
  /\ InitServicesIdle
  /\ InitNoteRenderer
  /\ InitChapterView
  /\ PremiumVaultViewOff
  /\ DiagramImageOff

NextChapter ==
  \/ \E p \in Parts : ChapterRouteChange(p)
  \/ ChapterRetryClick
  \/ \E i \in 1..MaxNoteFetches : NoteFetchResolved(i)
  \/ \E i \in 1..MaxNoteFetches, kind \in {"apikey", "other"} :
       NoteFetchRejected(i, kind)

SpecChapter == InitChapter /\ [][NextChapter]_vars

\* C27: whenever ChapterView displays a note (loading is false, no error),
\* it is the note fetched for the current part of the route, and while the
\* fetch for the current part is in flight the loading state is shown.
C27_DisplayedNoteIsCurrent ==
  /\ (chapterPart # NoPart /\ ~loading /\ error = NoError /\ note # NoNote) =>
       note = chapterPart
  /\ (\E i \in 1..MaxNoteFetches :
        /\ noteFetches[i] = [pc |-> "inflight", part |-> chapterPart]
        /\ \A j \in 1..MaxNoteFetches :
             j > i => noteFetches[j].pc = "unused") =>
       loading

NextAudio ==
  \/ \E isSummary \in BOOLEAN : handleStartAudio(isSummary)
  \/ stopAudio
  \/ \E i \in 1..MaxClicks, hasBuffer \in BOOLEAN : SpeechResolved(i, hasBuffer)
  \/ \E i \in 1..MaxClicks : SourceFinishes(i)
  \/ \E i \in 1..MaxClicks : OnEnded(i)
  \/ UnmountNoteRenderer

SpecAudio == InitAudio /\ [][NextAudio]_vars

\* C24: a speech fetch that is in flight when the playback is stopped or the
\* NoteRenderer is torn down runs to completion and its result is discarded:
\* no audio source is started from it.
C24_StaleSpeechDiscarded ==
  [][\A i \in 1..MaxClicks :
       (sources[i] = "none" /\ sources'[i] = "playing") =>
         ~speechCalls[i].stale]_vars

\* C30: while the NoteRenderer is mounted, at most one source it started is
\* playing, and whenever one is playing audioMode is "playing", so that the
\* stop control is rendered, whatever the order of the start clicks, stop
\* clicks, fetch completions and onended callbacks.
C30_OneSourceAndStopControl ==
  mounted =>
    /\ Cardinality({i \in 1..MaxClicks : sources[i] = "playing"}) <= 1
    /\ (\E i \in 1..MaxClicks : sources[i] = "playing") => audioMode = "playing"

(***************************************************************************)
(* The image and the speech fetcher called with long inputs                *)
(***************************************************************************)
\* a session with a configured credential in which one component asks for
\* images and speech
InitKeys ==
  /\ storage = [k \in StorageKeys |-> NoText]
  /\ full = FALSE
  /\ audioCache = [k \in SpeechKeys |-> Null]
  /\ apiKey = "valid"
  /\ started = 0
  /\ fetch = [c \in Callers |-> IF c = "c1" THEN IdleFetch ELSE OffFetch]
  /\ decode = IdleDecode
  /\ InitUI

NextKeys ==
  \/ \E c \in Callers, p \in LongPrompts : generateAestheticImage(c, p)
  \/ \E c \in Callers : AestheticImageResponse(c)
  \/ \E c \in Callers, t \in LongTexts, m \in BOOLEAN : generateSpeech(c, t, m)
  \/ \E c \in Callers : SpeechResponse(c)

SpecKeys == InitKeys /\ [][NextKeys]_vars

\* C25: whenever generateAestheticImage(P) returns an image, that image was
\* produced by a provider call made for prompt P itself: two different
\* prompts never share a cache entry.
C25_ImageIsForPrompt ==
  \A c \in Callers :
    LET f == fetch[c]
    IN  (f.op = "image" /\ f.pc = "done" /\ f.result.kind = "value") =>
          (f.result.val.t = "img" /\ f.result.val.input = f.input)

\* C26: whenever generateSpeech(T, mode) returns a buffer, that buffer was
\* synthesized from the text sent for T with that mode: two texts whose sent
\* portions differ never share an entry of the speech map.
C26_SpeechIsForText ==
  \A c \in Callers :
    LET f == fetch[c]
    IN  (f.op = "speech" /\ f.pc = "done" /\ f.result.kind = "value") =>
          (f.result.val.t = "audio" /\ f.result.val.input = f.input)

(***************************************************************************)
(* PremiumVaultView                                                        *)
(***************************************************************************)
\* the route changes to the vault of another subject: the effect checks the
\* access again
VaultRouteChange(subjectId) ==
  /\ vaultSubject # NoSubject
  /\ subjectId # vaultSubject
  /\ vaultSubject' = subjectId
  /\ viewState' = CheckedViewState(subjectId, user, activeEmail)
  /\ UNCHANGED << user, activeEmail, questions, vaultFetches, audioVars,
                  chapterVars, diagramVars,
                  serviceVars >>

\* handleLogout of App: the user prop becomes null and the effect checks the
\* access again
handleLogout ==
  /\ vaultSubject # NoSubject
  /\ user # NoUser
  /\ activeEmail' = NoUser
  /\ user' = NoUser
  /\ viewState' = CheckedViewState(vaultSubject, NoUser, NoUser)
  /\ UNCHANGED << vaultSubject, questions, vaultFetches, audioVars,
                  chapterVars, diagramVars,
                  serviceVars >>

\* handleRevealVault up to its await, the onClick of the button of the
\* granted screen
handleRevealVault ==
  /\ viewState = "granted"
  /\ \E i \in 1..MaxReveals :
       /\ vaultFetches[i].pc = "unused"
       /\ \A j \in 1..(i - 1) : vaultFetches[j].pc # "unused"
       /\ vaultFetches' =
            [vaultFetches EXCEPT ![i] = [pc |-> "inflight",
                                         subject |-> vaultSubject]]
  /\ viewState' = "loading"
  /\ UNCHANGED << vaultSubject, user, activeEmail, questions, audioVars,
                  chapterVars, diagramVars,
                  serviceVars >>

\* handleRevealVault after its await: generatePremiumQuestions resolved
\* with the questions of the subject it was called for
RevealResolved(i) ==
  /\ vaultFetches[i].pc = "inflight"
  /\ vaultFetches' = [vaultFetches EXCEPT ![i].pc = "done"]
  /\ questions' = vaultFetches[i].subject
  /\ viewState' = "content"
  /\ UNCHANGED << vaultSubject, user, activeEmail, audioVars, chapterVars,
                  diagramVars,
                  serviceVars >>

\* handleRevealVault after its await: generatePremiumQuestions rejected
RevealRejected(i) ==
  /\ vaultFetches[i].pc = "inflight"
  /\ vaultFetches' = [vaultFetches EXCEPT ![i].pc = "done"]
  /\ viewState' = "granted"
  /\ UNCHANGED << vaultSubject, user, activeEmail, questions, audioVars,
                  chapterVars, diagramVars,
                  serviceVars >>

InitVault ==
  /\ InitServicesIdle
  /\ InitNoteRenderer
  /\ ChapterViewOff
  /\ InitPremiumVaultView
  /\ DiagramImageOff

NextVault ==
  \/ \E s \in VaultSubjects : VaultRouteChange(s)
  \/ handleLogout
  \/ handleRevealVault
  \/ \E i \in 1..MaxReveals : RevealResolved(i)
  \/ \E i \in 1..MaxReveals : RevealRejected(i)

SpecVault == InitVault /\ [][NextVault]_vars

\* C28: PremiumVaultView is in state content for the subject of the route
\* only if that subject is among the purchased subjects of the current user
\* or of the ledger record of the active stored email, and the questions
\* shown were fetched for that subject.
C28_VaultGate ==
  viewState = "content" =>
    /\ HasAccess(vaultSubject, user, activeEmail)
    /\ questions = vaultSubject

(***************************************************************************)
(* DiagramImage                                                            *)
(***************************************************************************)
\* the prompt prop changes: the cleanup of the previous effect sets its
\* active flag to false, the new effect calls fetchImg
DiagramPromptChange(prompt) ==
  /\ diagramPrompt # NoPrompt
  /\ prompt # diagramPrompt
  /\ diagramPrompt' = prompt
  /\ \E i \in 1..MaxImageFetches :
       /\ imageFetches[i].pc = "unused"
       /\ \A j \in 1..(i - 1) : imageFetches[j].pc # "unused"
       /\ imageFetches' =
            [j \in 1..MaxImageFetches |->
               IF j = i
               THEN [pc |-> "inflight", prompt |-> prompt, active |-> TRUE]
               ELSE [imageFetches[j] EXCEPT !.active = FALSE]]
  /\ UNCHANGED << imgUrl, imgLoading, audioVars, chapterVars, vaultVars,
                  serviceVars >>

\* fetchImg after its await: generateAestheticImage resolved with the image
\* of its prompt (hasImage) or with null
ImageFetchResolved(i, hasImage) ==
  /\ imageFetches[i].pc = "inflight"
  /\ ~BtoaThrows(imageFetches[i].prompt)
  /\ imageFetches' = [imageFetches EXCEPT ![i].pc = "done"]
  /\ IF imageFetches[i].active
     THEN /\ imgUrl' = (IF hasImage THEN imageFetches[i].prompt ELSE NoUrl)
          /\ imgLoading' = FALSE
     ELSE UNCHANGED << imgUrl, imgLoading >>
  /\ UNCHANGED << diagramPrompt, audioVars, chapterVars, vaultVars,
                  serviceVars >>

\* fetchImg after its await: generateAestheticImage rejected, which it does
\* when btoa throws on the prompt; fetchImg has no catch
ImageFetchRejected(i) ==
  /\ imageFetches[i].pc = "inflight"
  /\ BtoaThrows(imageFetches[i].prompt)
  /\ imageFetches' = [imageFetches EXCEPT ![i].pc = "done"]
  /\ UNCHANGED << diagramPrompt, imgUrl, imgLoading, audioVars, chapterVars,
                  vaultVars, serviceVars >>

InitDiagram ==
  /\ InitServicesIdle
  /\ InitNoteRenderer
  /\ ChapterViewOff
  /\ PremiumVaultViewOff
  /\ InitDiagramImage

NextDiagram ==
  \/ \E p \in Prompts : DiagramPromptChange(p)
  \/ \E i \in 1..MaxImageFetches, hasImage \in BOOLEAN :
       ImageFetchResolved(i, hasImage)
  \/ \E i \in 1..MaxImageFetches : ImageFetchRejected(i)

SpecDiagram == InitDiagram /\ [][NextDiagram]_vars

\* C29: the image DiagramImage displays is the result of
\* generateAestheticImage for its current prompt: a result fetched for a
\* previous prompt is never shown, whether it arrives late or was already
\* displayed before the change, and the loading state is shown until the
\* fetch for the current prompt resolves.
C29_DiagramIsForPrompt ==
  /\ (diagramPrompt # NoPrompt /\ ~imgLoading /\ imgUrl # NoUrl) =>
       imgUrl = diagramPrompt
  /\ (\E i \in 1..MaxImageFetches :
        /\ imageFetches[i].pc = "inflight"
        /\ imageFetches[i].active) => imgLoading

====
